---- MODULE Spec2Model ----
(***************************************************************************)
(* PretrainedEmbeddingMismatchedEmbedder                                   *)
(* (src/modules/token_embedders/pretrained_embedding_mismatched_embedder)  *)
(*                                                                         *)
(* Tensors are nested sequences (1-indexed); the wordpiece indices held in *)
(* offsets stay 0-based as in the code and are shifted when a row is read. *)
(* Embedding values are integers and the quotient of line 95 is an exact   *)
(* fraction <<numerator, denominator>> in lowest terms, with denominator 0 *)
(* for the non-finite results of a division by zero.                       *)
(***************************************************************************)
EXTENDS Integers, Sequences, FiniteSets, TLC

\* ---------------------------------------------------------------- bounds
NumWordpieces == 3
NumTokens == 2
BatchSize == 2
EmbeddingDim == 2

\* Python's None; an optional value is None or the value itself
None == <<>>

VARIABLES
    ctor_args,          \* the arguments __init__ was called with
    matched_embedder,   \* self._matched_embedder
    span_select_impl,   \* which released util.batched_span_select is installed
    batch,              \* the caller's arrays
    first,              \* the first forward call ever made (None if none)
    last,               \* the last forward call (None if none)
    calls,              \* how many forward calls were made: "none", "one", "many"
    dim_ret             \* <<what get_output_dim last returned>> (None if never called)

vars == <<ctor_args, matched_embedder, span_select_impl, batch, first, last, calls,
          dim_ret>>

\* ---------------------------------------------------------------- arithmetic
RECURSIVE Gcd(_, _)
Gcd(a, b) == IF b = 0 THEN a ELSE Gcd(b, a % b)

Abs(x) == IF x < 0 THEN -x ELSE x

\* a clamped divisor: an empty span yields 0 instead of a non-finite value
DivClamped(a, b) ==
    LET c == IF b = 0 THEN 1 ELSE b
        g == Gcd(Abs(a), c)
    IN  IF g = 0 THEN <<0, 1>> ELSE <<a \div g, c \div g>>

\* the non-finite quotients: 0/0, and x/0 for x # 0
NaN == <<0, 0>>
Inf == <<1, 0>>

\* torch true division of a float by an integer count (line 95, "/")
Div(a, b) ==
    IF b = 0
    THEN IF a = 0 THEN NaN ELSE Inf
    ELSE LET g == Gcd(Abs(a), b) IN <<a \div g, b \div g>>

Finite(q) == q[2] # 0

RECURSIVE SumSeq(_)
SumSeq(s) == IF s = <<>> THEN 0 ELSE Head(s) + SumSeq(Tail(s))

RECURSIVE MaxSeq(_)
MaxSeq(s) == IF Len(s) = 1 THEN s[1]
             ELSE LET m == MaxSeq(Tail(s)) IN IF s[1] > m THEN s[1] ELSE m

RECURSIVE Flatten(_)
Flatten(ss) == IF ss = <<>> THEN <<>> ELSE Head(ss) \o Flatten(Tail(ss))

\* ---------------------------------------------------------------- inner embedder
\* the embedding matrix read from pretrained_file: one row per id 0..NumWordpieces
LoadWeight(pretrained_file) ==
    [id \in 0..NumWordpieces |-> [d \in 1..EmbeddingDim |-> (id + 1) * (id + d)]]

PretrainedEmbeddingEmbedder(pretrained_file, encoder, trainable) ==
    [pretrained_file |-> pretrained_file,
     encoder         |-> encoder,
     trainable       |-> trainable,
     weight          |-> LoadWeight(pretrained_file)]

\* PretrainedEmbeddingEmbedder.forward: per-wordpiece vectors, batch x wordpieces x dim
MatchedEmbedderForward(me, token_ids, m, type_ids, segment_concat_mask) ==
    [i \in 1..Len(token_ids) |->
        [p \in 1..Len(token_ids[i]) |-> me.weight[token_ids[i][p]]]]

\* PretrainedEmbeddingEmbedder.get_output_dim
MatchedEmbedderOutputDim(me) == Len(me.weight[0])

\* ---------------------------------------------------------------- __init__
\* __init__: self._matched_embedder
ModuleInit(pretrained_file, encoder, trainable) ==
    PretrainedEmbeddingEmbedder(pretrained_file, encoder, trainable)

\* ---------------------------------------------------------------- get_output_dim
\* the number of rows of the embedding matrix instead of its width
GetOutputDimRows(me) == Cardinality(DOMAIN me.weight)

GetOutputDim(me) == MatchedEmbedderOutputDim(me)

\* ---------------------------------------------------------------- batched_span_select
SpanSelectImpls == {"end_anchored", "start_anchored", "start_anchored_clipped"}

\* only the upper bound is checked; a negative index wraps around
IndexTooLargeOnly(idx, n) == idx >= n

\* flatten_and_batch_shift_indices: ConfigurationError on an index outside the sequence
IndexOutOfRange(idx, n) == idx >= n \/ idx < 0

\* target[idx] as torch indexes a row (a negative index counts from the end)
Gather(row, idx) == row[(((idx % Len(row)) + Len(row)) % Len(row)) + 1]

\* the wordpiece index read for slot k (0-based) of a span
RawSpanIndex(impl, span, k) ==
    IF impl = "end_anchored" THEN span[2] - k ELSE span[1] + k

\* span_mask of batched_span_select for slot k of a span over n wordpieces
SpanSlotMask(impl, span, k, n) ==
    /\ k <= span[2] - span[1]
    /\ CASE impl = "end_anchored"           -> RawSpanIndex(impl, span, k) >= 0
         [] impl = "start_anchored"         -> RawSpanIndex(impl, span, k) < n
         [] impl = "start_anchored_clipped" -> /\ RawSpanIndex(impl, span, k) < n
                                                /\ 0 <= RawSpanIndex(impl, span, k)

SpanSlotIndex(impl, span, k, n) ==
    IF SpanSlotMask(impl, span, k, n) THEN RawSpanIndex(impl, span, k) ELSE 0

MaxBatchSpanWidth(offsets) ==
    MaxSeq(Flatten([i \in 1..Len(offsets) |->
                      [j \in 1..Len(offsets[i]) |-> offsets[i][j][2] - offsets[i][j][1]]])) + 1

\* util.batched_span_select(target, offsets): (span_embeddings, span_mask), or an error
BatchedSpanSelect(impl, target, offsets) ==
    LET n == Len(target[1])
        w == MaxBatchSpanWidth(offsets)
        bad == \E i \in 1..Len(offsets) : \E j \in 1..Len(offsets[i]) : \E k \in 0..(w - 1) :
                  IndexOutOfRange(SpanSlotIndex(impl, offsets[i][j], k, n), n)
    IN  IF bad
        THEN [error |-> TRUE, span_embeddings |-> None, span_mask |-> None]
        ELSE [error |-> FALSE,
              span_embeddings |->
                 [i \in 1..Len(offsets) |-> [j \in 1..Len(offsets[i]) |-> [k \in 1..w |->
                     Gather(target[i], SpanSlotIndex(impl, offsets[i][j], k - 1, n))]]],
              span_mask |->
                 [i \in 1..Len(offsets) |-> [j \in 1..Len(offsets[i]) |-> [k \in 1..w |->
                     IF SpanSlotMask(impl, offsets[i][j], k - 1, n) THEN 1 ELSE 0]]]]

\* ---------------------------------------------------------------- forward
\* the original-token mask handed to the inner embedder in place of wordpiece_mask
MatchedEmbedderArgsTokenMask(token_ids, mask, wordpiece_mask, type_ids, segment_concat_mask) ==
    [ids |-> token_ids, mask |-> mask, type_ids |-> type_ids,
     segment_concat_mask |-> segment_concat_mask]

\* lines 82-84: the arguments of self._matched_embedder(...)
MatchedEmbedderArgs(token_ids, mask, wordpiece_mask, type_ids, segment_concat_mask) ==
    [ids |-> token_ids, mask |-> wordpiece_mask, type_ids |-> type_ids,
     segment_concat_mask |-> segment_concat_mask]

\* what an encoder would do to wordpiece embeddings (any map that is not the identity)
Encode(encoder, embeddings) ==
    [i \in 1..Len(embeddings) |-> [p \in 1..Len(embeddings[i]) |->
        [d \in 1..Len(embeddings[i][p]) |-> embeddings[i][p][d] + p]]]

\* an encoder step between the inner embedder and span selection
SpanSelectTargetEncoded(me, embeddings) ==
    [target |-> Encode(me.encoder, embeddings), steps |-> <<"encoder">>]

\* line 88: embeddings.contiguous(), the first argument of batched_span_select
SpanSelectTarget(me, embeddings) ==
    [target |-> embeddings, steps |-> <<>>]

\* the padded slots are left as gathered
ZeroOutPaddingsSkipped(span_embeddings, span_mask) == span_embeddings

\* lines 89-90: span_embeddings *= span_mask.unsqueeze(-1)
ZeroOutPaddings(span_embeddings, span_mask) ==
    [i \in 1..Len(span_embeddings) |-> [j \in 1..Len(span_embeddings[i]) |->
        [k \in 1..Len(span_embeddings[i][j]) |->
            [d \in 1..Len(span_embeddings[i][j][k]) |->
                span_embeddings[i][j][k][d] * span_mask[i][j][k]]]]]

\* the in-place product writes through to the embedding rows that were gathered
WeightAfterZeroOutAliased(me, token_ids, span_mask) ==
    [me EXCEPT !.weight =
        [id \in DOMAIN me.weight |->
            IF /\ \E i \in 1..Len(span_mask) : \E j \in 1..Len(span_mask[i]) :
                     \E k \in 1..Len(span_mask[i][j]) : span_mask[i][j][k] = 0
               /\ \E i \in 1..Len(token_ids) : token_ids[i][1] = id
            THEN [d \in 1..Len(me.weight[id]) |-> 0]
            ELSE me.weight[id]]]

\* line 90 multiplies the tensor batched_span_select returned, a copy: the inner
\* embedder is what it was
WeightAfterZeroOut(me, token_ids, span_mask) == me

\* the sum also runs over the embedding axis and keeps it with size 1
SumOverSpanAndEmbedding(x) ==
    [i \in 1..Len(x) |-> [j \in 1..Len(x[i]) |->
        <<SumSeq([k \in 1..Len(x[i][j]) |-> SumSeq(x[i][j][k])])>>]]

\* line 92: span_embeddings.sum(2)
SpanEmbeddingsSum(x) ==
    [i \in 1..Len(x) |-> [j \in 1..Len(x[i]) |-> [d \in 1..Len(x[i][j][1]) |->
        SumSeq([k \in 1..Len(x[i][j]) |-> x[i][j][k][d]])]]]

\* the padded width of the span block instead of the count of its valid slots
SpanEmbeddingsLenPadded(span_mask) ==
    [i \in 1..Len(span_mask) |-> [j \in 1..Len(span_mask[i]) |->
        <<Len(span_mask[i][j])>>]]

\* line 93: span_mask.sum(2), shape batch x tokens x 1
SpanEmbeddingsLen(span_mask) ==
    [i \in 1..Len(span_mask) |-> [j \in 1..Len(span_mask[i]) |->
        <<SumSeq(span_mask[i][j])>>]]

\* the slots the original-token mask marks invalid are zeroed
OrigEmbeddingsTokenMasked(mask, span_embeddings_sum, span_embeddings_len) ==
    [i \in 1..Len(span_embeddings_sum) |-> [j \in 1..Len(span_embeddings_sum[i]) |->
        [d \in 1..Len(span_embeddings_sum[i][j]) |->
            IF mask[i][j] = 0 THEN <<0, 1>>
            ELSE Div(span_embeddings_sum[i][j][d], span_embeddings_len[i][j][1])]]]

\* line 95: span_embeddings_sum / span_embeddings_len (mask is in scope and not read)
OrigEmbeddings(mask, span_embeddings_sum, span_embeddings_len) ==
    [i \in 1..Len(span_embeddings_sum) |-> [j \in 1..Len(span_embeddings_sum[i]) |->
        [d \in 1..Len(span_embeddings_sum[i][j]) |->
            Div(span_embeddings_sum[i][j][d], span_embeddings_len[i][j][1])]]]

\* a tensor held as a value: each step of forward computes its whole result once
Tensor(x) == IF x = x THEN x ELSE x

\* forward(token_ids, mask, offsets, wordpiece_mask, type_ids, segment_concat_mask):
\* the record of one call
Forward(me, impl, token_ids, mask, offsets, wordpiece_mask, type_ids, segment_concat_mask) ==
    LET a    == MatchedEmbedderArgs(token_ids, mask, wordpiece_mask, type_ids,
                                    segment_concat_mask)
        emb  == Tensor(MatchedEmbedderForward(me, a.ids, a.mask, a.type_ids,
                                              a.segment_concat_mask))
        t    == SpanSelectTarget(me, emb)
        sel  == Tensor(BatchedSpanSelect(impl, Tensor(t.target), offsets))
        base == [mask |-> mask,
                 passed |-> [token_ids |-> token_ids, offsets |-> offsets,
                             wordpiece_mask |-> wordpiece_mask, type_ids |-> type_ids,
                             segment_concat_mask |-> segment_concat_mask],
                 inner_calls |-> <<a>>,
                 embeddings |-> emb,
                 select_target |-> t.target,
                 steps |-> <<"matched_embedder">> \o t.steps \o <<"batched_span_select">>]
    IN  IF sel.error
        THEN base @@ [status |-> "error", span_mask |-> None, span_embeddings_sum |-> None,
                      span_embeddings_len |-> None, out |-> None]
        ELSE LET z == Tensor(ZeroOutPaddings(sel.span_embeddings, sel.span_mask))
                 s == Tensor(SpanEmbeddingsSum(z))
                 l == Tensor(SpanEmbeddingsLen(sel.span_mask))
             IN  base @@ [status |-> "ok", span_mask |-> sel.span_mask,
                          span_embeddings_sum |-> s, span_embeddings_len |-> l,
                          out |-> OrigEmbeddings(mask, s, l)]

\* ---------------------------------------------------------------- the caller's batches
\* a sentence of L real wordpieces padded to NumWordpieces: ids, then padding id 0
TokenIdsRow(L) == [p \in 1..NumWordpieces |-> IF p <= L THEN p ELSE 0]
WordpieceMaskRow(L) == [p \in 1..NumWordpieces |-> IF p <= L THEN 1 ELSE 0]
MaskRow(K) == [j \in 1..NumTokens |-> IF j <= K THEN 1 ELSE 0]

\* inclusive [start, end] pairs, start <= end, that may leave the sequence on either side
Spans == {<<s, e>> : s \in -1..NumWordpieces, e \in -1..NumWordpieces} \
         {sp \in (-1..NumWordpieces) \X (-1..NumWordpieces) : sp[1] > sp[2]}

\* the token after a span: the next wordpiece, or a token without wordpieces
NextSpans(sp) == {<<sp[2] + 1, sp[2] + 1>>, <<-1, -1>>}

RECURSIVE OffsetRows(_)
OffsetRows(t) ==
    IF t = 1 THEN {<<sp>> : sp \in Spans}
    ELSE UNION {{Append(r, sp) : sp \in NextSpans(r[Len(r)])} : r \in OffsetRows(t - 1)}

RowLen(L, i) == IF L - (i - 1) > 0 THEN L - (i - 1) ELSE 0

\* row 1 is the drawn sentence; every further row is a shorter sentence whose tokens
\* are all its first wordpiece. With full, every token slot is marked valid and the
\* optional arguments are given; without, the last token slot is padding and they are None
Batches(full) ==
    {[token_ids      |-> [i \in 1..BatchSize |-> TokenIdsRow(RowLen(L, i))],
      wordpiece_mask |-> [i \in 1..BatchSize |-> WordpieceMaskRow(RowLen(L, i))],
      offsets        |-> [i \in 1..BatchSize |->
                             IF i = 1 THEN r ELSE [j \in 1..NumTokens |-> <<0, 0>>]],
      mask           |-> [i \in 1..BatchSize |-> MaskRow(IF full THEN NumTokens
                                                          ELSE NumTokens - 1)],
      type_ids       |-> IF full THEN [i \in 1..BatchSize |-> [p \in 1..NumWordpieces |-> 0]]
                         ELSE None,
      segment_concat_mask |->
                         IF full THEN [i \in 1..BatchSize |-> [p \in 1..NumWordpieces |-> 1]]
                         ELSE None] :
        L \in 0..NumWordpieces, r \in OffsetRows(NumTokens)}

\* the other original-token mask a caller could pass with the same batch
FlipMask(mask) == [i \in 1..Len(mask) |-> [j \in 1..Len(mask[i]) |-> 1 - mask[i][j]]]

\* the constructor arguments of the two set-ups: the defaults (no encoder, trainable),
\* and a frozen embedding with an encoder
CtorArgs(with_encoder) ==
    IF with_encoder
    THEN [pretrained_file |-> "vectors.txt", encoder |-> <<"seq2seq">>, trainable |-> FALSE]
    ELSE [pretrained_file |-> "vectors.txt", encoder |-> None, trainable |-> TRUE]

\* ---------------------------------------------------------------- state machine
\* a module with the default arguments is called without the optional arguments, a
\* module with an encoder is called with them
Init ==
    /\ \E setup \in BOOLEAN :
          /\ ctor_args = CtorArgs(setup)
          /\ batch \in Batches(setup)
    /\ matched_embedder =
          ModuleInit(ctor_args.pretrained_file, ctor_args.encoder, ctor_args.trainable)
    /\ span_select_impl \in SpanSelectImpls
    /\ first = None
    /\ last = None
    /\ calls = "none"
    /\ dim_ret = None

\* a call of forward on the caller's batch, with its mask or the flipped one
ForwardCall(flip) ==
    LET m == IF flip THEN FlipMask(batch.mask) ELSE batch.mask
        r == Forward(matched_embedder, span_select_impl, batch.token_ids, m, batch.offsets,
                     batch.wordpiece_mask, batch.type_ids, batch.segment_concat_mask)
    IN  /\ last' = r
        /\ first' = IF first = None
                    THEN [mask |-> r.mask, status |-> r.status, out |-> r.out]
                    ELSE first
        /\ matched_embedder' =
              IF r.status = "ok"
              THEN WeightAfterZeroOut(matched_embedder, batch.token_ids, r.span_mask)
              ELSE matched_embedder
        /\ calls' = IF calls = "none" THEN "one" ELSE "many"
        /\ UNCHANGED <<ctor_args, span_select_impl, batch, dim_ret>>

GetOutputDimCall ==
    /\ dim_ret' = <<GetOutputDim(matched_embedder)>>
    /\ UNCHANGED <<ctor_args, matched_embedder, span_select_impl, batch, first, last, calls>>

Next ==
    \/ \E flip \in BOOLEAN : ForwardCall(flip)
    \/ GetOutputDimCall

Spec == Init /\ [][Next]_vars

\* ---------------------------------------------------------------- reading a call
Done == last # None
Ok == Done /\ last.status = "ok"
BatchRows == 1..Len(batch.offsets)
TokenSlots(i) == 1..Len(batch.offsets[i])
SeqLen == Len(batch.token_ids[1])
SpanOf(i, j) == batch.offsets[i][j]
\* the wordpiece positions (0-based) of a span, and those of them inside the sequence
SpanPositions(i, j) == SpanOf(i, j)[1]..SpanOf(i, j)[2]
PositionsInSeq(i, j) == SpanPositions(i, j) \cap (0..(SeqLen - 1))
InRange(i, j) == SpanPositions(i, j) # {} /\ SpanPositions(i, j) \subseteq 0..(SeqLen - 1)
RealWordpiece(i, p) == batch.wordpiece_mask[i][p + 1] = 1

\* the sum over the wordpiece positions P of component d of the inner embedder's output
RECURSIVE EmbeddingSum(_, _, _)
EmbeddingSum(i, P, d) ==
    IF P = {} THEN 0
    ELSE LET p == CHOOSE q \in P : TRUE
         IN  last.embeddings[i][p + 1][d] + EmbeddingSum(i, P \ {p}, d)

\* q is the finite quotient total / count
IsQuotient(q, total, count) == q[2] # 0 /\ count # 0 /\ q[1] * count = total * q[2]

\* the output slot (i, j) is the elementwise mean over the positions P
SlotIsMeanOver(i, j, P) ==
    \A d \in 1..Len(last.out[i][j]) :
        IsQuotient(last.out[i][j][d], EmbeddingSum(i, P, d), Cardinality(P))

\* ---------------------------------------------------------------- C1
\* C1: in a completed forward call, a token whose span lies inside the sequence and holds
\* a real wordpiece gets the elementwise mean of the inner embedder's outputs at the
\* positions start..end inclusive; a span of one wordpiece gets that embedding unchanged.
C1_MeanOverSpan ==
    Ok => \A i \in BatchRows : \A j \in TokenSlots(i) :
            (InRange(i, j) /\ \E p \in SpanPositions(i, j) : RealWordpiece(i, p)) =>
                /\ Len(last.out[i][j]) = Len(last.embeddings[i][1])
                /\ SlotIsMeanOver(i, j, SpanPositions(i, j))
                /\ SpanOf(i, j)[1] = SpanOf(i, j)[2] =>
                      \A d \in 1..Len(last.out[i][j]) :
                          last.out[i][j][d] = <<last.embeddings[i][SpanOf(i, j)[1] + 1][d], 1>>

\* spans [0,1] and [2,2] over three real wordpieces e0, e1, e2: mean(e0, e1) and e2
C1_Witness ==
    /\ Ok
    /\ batch.offsets[1] = <<<<0, 1>>, <<2, 2>>>>
    /\ \A p \in 0..2 : RealWordpiece(1, p)
    /\ \A d \in 1..Len(last.out[1][1]) :
          /\ IsQuotient(last.out[1][1][d],
                        last.embeddings[1][1][d] + last.embeddings[1][2][d], 2)
          /\ last.out[1][2][d] = <<last.embeddings[1][3][d], 1>>

\* ---------------------------------------------------------------- C2
\* C2 as stated: a position whose wordpiece_mask is 0 adds nothing to span_embeddings_sum
\* and is not counted in span_embeddings_len; the divisor is the number of positions of
\* the span whose wordpiece_mask is 1.
C2_MaskedWordpiecesExcluded ==
    Ok => \A i \in BatchRows : \A j \in TokenSlots(i) :
            LET real == {p \in PositionsInSeq(i, j) : RealWordpiece(i, p)}
            IN  /\ last.span_embeddings_len[i][j][1] = Cardinality(real)
                /\ \A d \in 1..Len(last.span_embeddings_sum[i][j]) :
                      last.span_embeddings_sum[i][j][d] = EmbeddingSum(i, real, d)

\* C2 amended: span_mask comes from the offsets and the sequence length alone; every
\* position of the span inside the sequence is counted in span_embeddings_len and adds the
\* inner embedder's output there to span_embeddings_sum, whatever its wordpiece_mask.
C2_SpanPositionsCounted ==
    Ok => \A i \in BatchRows : \A j \in TokenSlots(i) :
            /\ last.span_embeddings_len[i][j][1] = Cardinality(PositionsInSeq(i, j))
            /\ \A d \in 1..Len(last.span_embeddings_sum[i][j]) :
                  last.span_embeddings_sum[i][j][d] = EmbeddingSum(i, PositionsInSeq(i, j), d)

\* a span inside the sequence that holds a padding wordpiece, which is counted
C2_Witness ==
    /\ Ok
    /\ \E i \in BatchRows : \E j \in TokenSlots(i) :
          /\ InRange(i, j)
          /\ \E p \in SpanPositions(i, j) : ~RealWordpiece(i, p)
          /\ \E p \in SpanPositions(i, j) : RealWordpiece(i, p)
          /\ last.span_embeddings_len[i][j][1] = Cardinality(SpanPositions(i, j))

\* ---------------------------------------------------------------- C3
\* C3: when span_embeddings_len is 0 in some slot the call still completes; that slot of
\* the output is non-finite and every slot with a valid position is the mean of its span.
C3_EmptySpanNonFinite ==
    (Done /\ last.span_embeddings_len # None
          /\ \E i \in BatchRows : \E j \in TokenSlots(i) :
                last.span_embeddings_len[i][j][1] = 0) =>
        /\ last.status = "ok"
        /\ \A i \in BatchRows : \A j \in TokenSlots(i) :
              IF last.span_embeddings_len[i][j][1] = 0
              THEN \A d \in 1..Len(last.out[i][j]) : ~Finite(last.out[i][j][d])
              ELSE SlotIsMeanOver(i, j, PositionsInSeq(i, j))

\* one token without a valid position beside a token with one, in the same row
C3_Witness ==
    /\ Ok
    /\ \E i \in BatchRows : \E j, k \in TokenSlots(i) :
          /\ last.span_embeddings_len[i][j][1] = 0
          /\ last.out[i][j][1] = NaN
          /\ last.span_embeddings_len[i][k][1] > 0
          /\ Finite(last.out[i][k][1])

\* ---------------------------------------------------------------- C4
OutsideSeq(p) == p < 0 \/ p >= SeqLen
\* the out-of-range positions the installed batched_span_select masks out
MaskedOut(p) ==
    CASE span_select_impl = "end_anchored"           -> p < 0
      [] span_select_impl = "start_anchored"         -> p >= SeqLen
      [] span_select_impl = "start_anchored_clipped" -> OutsideSeq(p)

C5_OutputShape ==
    Ok => /\ Len(last.out) = Len(batch.offsets)
          /\ \A i \in BatchRows :
                /\ Len(last.out[i]) = Len(batch.offsets[i])
                /\ \A j \in TokenSlots(i) :
                      Len(last.out[i][j]) = GetOutputDim(matched_embedder)

\* a batch whose widest span differs from the number of wordpieces and of tokens
C5_Witness ==
    /\ Ok
    /\ MaxBatchSpanWidth(batch.offsets) > SeqLen
    /\ SeqLen # Len(batch.offsets[1])
    /\ Len(last.out) = BatchSize
    /\ Len(last.out[1]) = NumTokens
    /\ Len(last.out[1][1]) = EmbeddingDim

\* ---------------------------------------------------------------- C6
\* C6: get_output_dim() returns the inner embedder's output dimension, a positive integer
\* that is the same after construction and after any forward calls, and the call changes
\* nothing but the value it returns.
C6_OutputDimFixed ==
    /\ [](dim_ret # None =>
            /\ dim_ret[1] = MatchedEmbedderOutputDim(matched_embedder)
            /\ dim_ret[1] = Len(LoadWeight(ctor_args.pretrained_file)[0])
            /\ dim_ret[1] > 0)
    /\ [][dim_ret' # dim_ret =>
            /\ dim_ret = None
            /\ UNCHANGED <<ctor_args, matched_embedder, span_select_impl, batch, first,
                           last, calls>>]_vars

\* get_output_dim() called after some forward calls
C6_Witness ==
    /\ dim_ret = <<EmbeddingDim>>
    /\ calls = "many"

C8_InnerEmbedderCall ==
    Done =>
        /\ last.inner_calls = <<[ids |-> batch.token_ids, mask |-> batch.wordpiece_mask,
                                 type_ids |-> batch.type_ids,
                                 segment_concat_mask |-> batch.segment_concat_mask]>>
        /\ last.steps[1] = "matched_embedder"
        /\ \A n \in 2..Len(last.steps) : last.steps[n] # "matched_embedder"
        /\ \E n \in 2..Len(last.steps) : last.steps[n] = "batched_span_select"

\* a call without the optional arguments, whose token mask is not the wordpiece mask
C8_Witness ==
    /\ Done
    /\ batch.type_ids = None
    /\ batch.segment_concat_mask = None
    /\ last.mask # batch.wordpiece_mask
    /\ Len(last.inner_calls) = 1
    /\ last.inner_calls[1].mask = batch.wordpiece_mask
    /\ last.inner_calls[1].type_ids = None

\* ---------------------------------------------------------------- C9
\* C9: the original-token mask is not read: two calls that differ at most in mask have the
\* same outcome, and a slot that mask marks invalid is pooled like any other (the mean of
\* its span, or non-finite when the span has no valid position).
C9_TokenMaskIgnored ==
    /\ (first # None /\ last # None) =>
            /\ first.status = last.status
            /\ first.out = last.out
    /\ Ok => \A i \in BatchRows : \A j \in TokenSlots(i) :
                last.mask[i][j] = 0 =>
                   IF PositionsInSeq(i, j) = {}
                   THEN \A d \in 1..Len(last.out[i][j]) : ~Finite(last.out[i][j][d])
                   ELSE SlotIsMeanOver(i, j, PositionsInSeq(i, j))

\* two completed calls with different masks, the last marking a pooled slot invalid
C9_Witness ==
    /\ calls = "many"
    /\ first.mask # last.mask
    /\ last.status = "ok"
    /\ first.out = last.out
    /\ \E i \in BatchRows : \E j \in TokenSlots(i) :
          last.mask[i][j] = 0 /\ first.mask[i][j] = 1 /\ Finite(last.out[i][j][1])

\* ---------------------------------------------------------------- C10
\* C10: the inner embedder holds the pretrained_file, encoder and trainable the module was
\* constructed with, and forward hands the inner embedder's output to span selection as it
\* is, with no encoder step in between.
C10_EncoderNotInvoked ==
    /\ matched_embedder.pretrained_file = ctor_args.pretrained_file
    /\ matched_embedder.encoder = ctor_args.encoder
    /\ matched_embedder.trainable = ctor_args.trainable
    /\ Done =>
          /\ last.select_target = last.embeddings
          /\ \A n \in 1..Len(last.steps) : last.steps[n] # "encoder"
          /\ last.steps = <<"matched_embedder", "batched_span_select">>

\* a module built with an encoder, after a completed forward call
C10_Witness ==
    /\ Ok
    /\ ctor_args.encoder # None
    /\ matched_embedder.encoder = ctor_args.encoder
    /\ last.select_target = last.embeddings

====
